---------------------------- MODULE Spec2Model ----------------------------
(***************************************************************************)
(* A model of the csscolor crate: the Color record (src/src/color.rs), its *)
(* constructor Color::new, the typed projection Color::as_model and the    *)
(* conversion engine Color::to_color_space with its primitive transforms   *)
(* (src/src/convert.rs).                                                   *)
(*                                                                         *)
(* Numbers.  The crate computes in f32.  Here an f32 is an IEEE 754        *)
(* binary32 number, a pair <<m, e>> of a 24-bit significand and an         *)
(* exponent, or the value NaN.  Literals, +, -, *, /, %, sqrt and the      *)
(* comparisons are exact: every result is rounded to nearest, ties to      *)
(* even, every operator propagates NaN and every ordered comparison with   *)
(* NaN is false.  powf, cbrt, sin, cos and atan2 belong to the platform's  *)
(* libm; they are computed here in f32 arithmetic and agree with it to a   *)
(* few units in the last place (sin and cos to 1e-6).  Infinities,         *)
(* subnormal numbers and the sign of zero are not modelled; no input       *)
(* used here reaches them.                                                 *)
(***************************************************************************)
EXTENDS Integers, Sequences, FiniteSets, TLC

\* ---------------------------------------------------------------- bounds

\* Component inputs of a channel are Base + k * Step for k in 0..MaxLevel.
MaxLevel == 1

\* Concrete alpha inputs are k * 0.5 for k in 1..MaxAlpha.
MaxAlpha == 1

\* A returned Color is used as the receiver of further calls at most MaxHops
\* times in a row.
MaxHops == 1

\* ------------------------------------------------------------ f32, binary32

\* Decimal literals of the source are written to 1/Scale.
Scale == 100000

\* 2^23 and 2^24: the significand m of a finite nonzero f32 has 24 bits,
\* Two23 <= |m| < Two24.
Two23 == 8388608

Two24 == 16777216

\* An f32 is <<m, e>>, the number m * 2^e.  0.0 is <<0, 0>>.
Zero == <<0, 0>>

\* f32::NAN
NaN == <<0, 1>>

IsNaN(a) == a = NaN

AbsI(a) == IF a < 0 THEN -a ELSE a

RECURSIVE BitLen(_)
\* The number of bits of an integer M >= 0, four at a time.
BitLen(M) ==
    IF M >= 16 THEN 4 + BitLen(M \div 16)
    ELSE IF M >= 4 THEN (IF M >= 8 THEN 4 ELSE 3)
    ELSE IF M >= 2 THEN 2 ELSE M

\* -a
Neg(a) == <<-a[1], a[2]>>

\* a with the sign of the integer s (a >= 0).
Signed(s, a) == IF s < 0 THEN Neg(a) ELSE a

\* A significand that rounding carried to 2^24 becomes 2^23 one exponent up.
Carry(q, e) == IF q = Two24 THEN <<Two23, e + 1>> ELSE <<q, e>>

\* Round to nearest, ties to even: q is the significand, rem the part below
\* it, half the weight of half a unit of q, sticky whether more bits follow.
Rounded(q, rem, half, e, sticky) ==
    Carry(IF rem > half \/ (rem = half /\ (sticky \/ q % 2 = 1))
          THEN q + 1 ELSE q, e)

\* The f32 nearest to (M + f) * 2^e, where 0 < f < 1 if sticky and f = 0 if
\* not, for an integer 0 <= M < 2^30 (of 26 bits or more if sticky).
RoundLen(M, e, sticky, len) ==
    IF M = 0 THEN Zero
    ELSE IF len <= 24 THEN <<M * 2^(24 - len), e - (24 - len)>>
    ELSE Rounded(M \div 2^(len - 24), M % 2^(len - 24), 2^(len - 25),
                 e + (len - 24), sticky)

Round(M, e, sticky) == RoundLen(M, e, sticky, BitLen(M))

\* An integer |n| < 2^30 as f32.
FromInt(n) == Signed(n, Round(AbsI(n), 0, FALSE))

\* The product x * y * 2^e of two significands, from the partial products of
\* their 12-bit halves: H is the upper 24 bits of the 48, low the rest.
MulTop(H, low, e) == Round(H * 16 + low \div 1048576, e + 20, low % 1048576 /= 0)

MulLow(H, low, e) == MulTop(H + low \div Two24, low % Two24, e)

MulParts(hi, mid, lo, e) == MulLow(hi + mid \div 4096, (mid % 4096) * 4096 + lo, e)

MulAbs(x, y, e) ==
    MulParts((x \div 4096) * (y \div 4096),
             (x \div 4096) * (y % 4096) + (x % 4096) * (y \div 4096),
             (x % 4096) * (y % 4096), e)

\* f32 multiplication.
Mul(a, b) ==
    IF IsNaN(a) \/ IsNaN(b) THEN NaN
    ELSE IF a[1] = 0 \/ b[1] = 0 THEN Zero
    ELSE Signed(IF (a[1] < 0) = (b[1] < 0) THEN 1 ELSE -1,
                MulAbs(AbsI(a[1]), AbsI(b[1]), a[2] + b[2]))

RECURSIVE DivDigits(_, _, _, _)
\* Long division: n more binary digits of r / b appended to q, four at a
\* time (r < b < 2^27); the result is <<quotient, remainder>>.
DivDigits(q, r, b, n) ==
    IF n = 0 THEN <<q, r>>
    ELSE IF n < 4 THEN DivDigits(q * 2^n + (r * 2^n) \div b, (r * 2^n) % b, b, 0)
    ELSE DivDigits(q * 16 + (r * 16) \div b, (r * 16) % b, b, n - 4)

\* A quotient qr[1] * 2^e with remainder qr[2], rounded.
RoundQuotient(qr, e) == Round(qr[1], e, qr[2] /= 0)

\* The quotient x / y * 2^e of two significands, to 26 binary places.
DivAbs(x, y, e) == RoundQuotient(DivDigits(x \div y, x % y, y, 26), e - 26)

\* f32 division.  A zero divisor gives NaN here (f32 gives an infinity or
\* NaN); no division of the crate is reached with a zero divisor.
Div(a, b) ==
    IF IsNaN(a) \/ IsNaN(b) \/ b[1] = 0 THEN NaN
    ELSE IF a[1] = 0 THEN Zero
    ELSE Signed(IF (a[1] < 0) = (b[1] < 0) THEN 1 ELSE -1,
                DivAbs(AbsI(a[1]), AbsI(b[1]), a[2] - b[2]))

\* The sum S * 2^e of two aligned significands, S an integer to which a
\* fraction in (0, 1) is still to be added if sticky.
AddAligned(S, e, sticky) ==
    Signed(S, Round(IF S >= 0 THEN S ELSE IF sticky THEN -S - 1 ELSE -S,
                    e, sticky))

\* a + b for |a| of the larger exponent, which exceeds that of b by d: five
\* guard bits, and b shifted down by d.
AddOrdered(a, b, d) ==
    IF d >= 27 THEN a
    ELSE AddAligned(a[1] * 32 + (b[1] * 32) \div 2^d, a[2] - 5,
                    (b[1] * 32) % 2^d /= 0)

\* f32 addition and subtraction.
Add(a, b) ==
    IF IsNaN(a) \/ IsNaN(b) THEN NaN
    ELSE IF b[1] = 0 THEN a
    ELSE IF a[1] = 0 THEN b
    ELSE AddOrdered(IF a[2] >= b[2] THEN a ELSE b,
                    IF a[2] >= b[2] THEN b ELSE a, AbsI(a[2] - b[2]))

Sub(a, b) == Add(a, Neg(b))

\* a < b for two f32 that are not NaN.
Less(a, b) ==
    IF a[1] <= 0 /\ b[1] >= 0 THEN a[1] < 0 \/ b[1] > 0
    ELSE IF a[1] >= 0 /\ b[1] <= 0 THEN FALSE
    ELSE IF a[2] /= b[2] THEN (a[2] < b[2]) = (a[1] > 0)
    ELSE a[1] < b[1]

\* The mutant of Lt: a comparison with NaN is true.
Lt_unordered(a, b) == IsNaN(a) \/ IsNaN(b) \/ Less(a, b)

\* f32 comparisons: every ordered comparison with NaN is false, != is true.
Lt(a, b) == ~IsNaN(a) /\ ~IsNaN(b) /\ Less(a, b)

Le(a, b) == ~IsNaN(a) /\ ~IsNaN(b) /\ ~Less(b, a)

Gt(a, b) == ~IsNaN(a) /\ ~IsNaN(b) /\ Less(b, a)

Eq(a, b) == ~IsNaN(a) /\ ~IsNaN(b) /\ a = b

Ne(a, b) == ~Eq(a, b)

\* f32::abs
Abs(a) == <<AbsI(a[1]), a[2]>>

\* f32::signum: 1.0 for a positive number and +0.0, -1.0 for a negative one.
Signum(a) == IF IsNaN(a) THEN NaN ELSE IF a[1] < 0 THEN FromInt(-1) ELSE FromInt(1)

\* f32::max and f32::min: a NaN operand is ignored.
Max(a, b) == IF IsNaN(a) THEN b ELSE IF IsNaN(b) THEN a ELSE IF Less(a, b) THEN b ELSE a

Min(a, b) == IF IsNaN(a) THEN b ELSE IF IsNaN(b) THEN a ELSE IF Less(b, a) THEN b ELSE a

\* The decimal literal n / 10^k as f32 (0 <= n < 2^30, k <= 11): n / 5^k
\* to s binary places, 26 bits or more, rounded once.
Places(divisor, dividend) ==
    IF 27 + divisor > dividend THEN 27 + divisor - dividend ELSE 0

DecimalPlaces(n, k) == Places(BitLen(5^k), BitLen(n))

DecimalTo(n, k, s) ==
    RoundQuotient(DivDigits(n \div 5^k, n % 5^k, 5^k, s), 0 - s - k)

Decimal(n, k) == DecimalTo(n, k, DecimalPlaces(n, k))

\* A decimal literal n.ddddd of the source is written F(n, ddddd).
F(int, frac) ==
    IF frac = 0 THEN FromInt(int) ELSE Decimal(int * Scale + frac, 5)

RECURSIVE FmodDigits(_, _, _)
\* r * 2^n modulo b, for integers 0 <= r < b < 2^24.
FmodDigits(r, b, n) == IF n = 0 THEN r ELSE FmodDigits((r * 2) % b, b, n - 1)

\* The operator % of f32, exact, with the sign of a.
Fmod(a, b) ==
    IF IsNaN(a) \/ IsNaN(b) \/ b[1] = 0 THEN NaN
    ELSE IF a[1] = 0 \/ a[2] < b[2] THEN a
    ELSE Signed(a[1], Round(FmodDigits(AbsI(a[1]) % AbsI(b[1]), AbsI(b[1]),
                                       a[2] - b[2]), b[2], FALSE))

\* f32::rem_euclid: r = self % rhs; if r < 0.0 { r + rhs.abs() } else { r }
RemEuclidOf(r, rhs) == IF Lt(r, Zero) THEN Add(r, Abs(rhs)) ELSE r

RemEuclid(a, rhs) == RemEuclidOf(Fmod(a, rhs), rhs)

RECURSIVE SqrtDigits(_, _, _, _, _)
\* Square root digit by digit: the radicand M is taken two bits at a time
\* from bit pair i down, then zeros, for n digits of the root; the result is
\* <<root, remainder>>.
SqrtDigits(root, rem, M, i, n) ==
    IF n = 0 THEN <<root, rem>>
    ELSE IF rem * 4 + (IF i >= 0 THEN (M \div 4^i) % 4 ELSE 0) >= root * 4 + 1
    THEN SqrtDigits(root * 2 + 1,
                    rem * 4 + (IF i >= 0 THEN (M \div 4^i) % 4 ELSE 0)
                        - (root * 4 + 1), M, i - 1, n - 1)
    ELSE SqrtDigits(root * 2,
                    rem * 4 + (IF i >= 0 THEN (M \div 4^i) % 4 ELSE 0),
                    M, i - 1, n - 1)

\* f32::sqrt, correctly rounded: the significand is made a 26-bit radicand
\* with an even exponent E, and the root is taken to 26 digits.
SqrtOf(M, E) == RoundQuotient(SqrtDigits(0, 0, M, 12, 26), (E - 26) \div 2)

Sqrt(a) ==
    IF IsNaN(a) \/ a[1] < 0 THEN NaN
    ELSE IF a[1] = 0 THEN Zero
    ELSE IF a[2] % 2 = 0 THEN SqrtOf(a[1], a[2])
    ELSE SqrtOf(a[1] * 2, a[2] - 1)

RECURSIVE PowN(_, _)
\* x^k for an integer k >= 1, by repeated multiplication.
PowN(x, k) == IF k = 1 THEN x ELSE Mul(PowN(x, k - 1), x)

\* The power of two 2^ceil((e + 24) / k), which is not below the k-th root
\* of m * 2^e.
RootStart(a, k) == <<Two23, 0 - ((0 - (a[2] + 24)) \div k) - 23>>

\* One step of Newton's iteration for the k-th root of z.
RootStep(z, y, k) ==
    Div(Add(Mul(FromInt(k - 1), y), Div(z, PowN(y, k - 1))), FromInt(k))

RECURSIVE RootSearch(_, _, _, _)
\* Newton's iteration from y, which is not below the root, until it stops
\* descending, in n steps at most.
RootDescend(z, y, next, k, n) ==
    IF Lt(next, y) THEN RootSearch(z, next, k, n - 1) ELSE y

RootSearch(z, y, k, n) ==
    IF n = 0 THEN y ELSE RootDescend(z, y, RootStep(z, y, k), k, n)

\* The most Newton steps a root takes from RootStart.
RootCap == 12

\* The k-th root of a >= 0, to a few units in the last place.
Root(a, k) == IF a[1] = 0 THEN Zero ELSE RootSearch(a, RootStart(a, k), k, RootCap)

\* (a * a + b * b).sqrt()
SqrtSumSquares(a, b) == Sqrt(Add(Mul(a, a), Mul(b, b)))

\* f32::cbrt
Cbrt(a) ==
    IF IsNaN(a) THEN NaN
    ELSE IF a[1] < 0 THEN Neg(Root(Neg(a), 3)) ELSE Root(a, 3)

\* a.powf(2.4) for a >= 0: a^2 times the square of the fifth root of a.
Powf_2_4_of(a, r) == Mul(Mul(a, a), Mul(r, r))

Powf_2_4(a) ==
    IF IsNaN(a) \/ a[1] < 0 THEN NaN ELSE Powf_2_4_of(a, Root(a, 5))

\* a.powf(1.0 / 2.4) for a >= 0: the cube root of a times its twelfth root.
Powf_1_2_4_of(c) == Mul(c, Sqrt(Sqrt(c)))

Powf_1_2_4(a) ==
    IF IsNaN(a) \/ a[1] < 0 THEN NaN ELSE Powf_1_2_4_of(Root(a, 3))

\* std::f32::consts::PI, 3.14159274 = 13176795 * 2^-22 (0x40490FDB).
PI == <<13176795, -22>>

\* 2 pi, pi / 2 and pi / 4: powers of two scale an f32 exactly.
TWO_PI == <<PI[1], PI[2] + 1>>

HALF_PI == <<PI[1], PI[2] - 1>>

QUARTER_PI == <<PI[1], PI[2] - 2>>

SIXTH_PI == Div(PI, FromInt(6))

SQRT_3 == Sqrt(FromInt(3))

\* tan(pi/12)
TAN_PI_12 == Decimal(26794919, 8)

\* The constants of f32::to_radians and f32::to_degrees.
RADS_PER_DEG == Div(PI, FromInt(180))

DEGS_PER_RAD == Decimal(572957795, 7)

\* 1.0
One == <<Two23, -23>>

\* pi minus the f32 PI, -8.742278e-8 = -12303663 * 2^-47.
PI_ERR == <<-12303663, -47>>

\* 1 - x2 / n * t, a factor of a Taylor polynomial in Horner form.
Term(x2, n, t) == Sub(One, Mul(Div(x2, FromInt(n)), t))

RECURSIVE Taylor(_, _, _)
\* The product of the factors Term(x2, ns[i], ...) from i on, innermost last.
Taylor(x2, ns, i) ==
    IF i > Len(ns) THEN One ELSE Term(x2, ns[i], Taylor(x2, ns, i + 1))

\* sin x and cos x for |x| <= pi/4, by their Taylor polynomials.
SinP(x, x2) == Mul(x, Taylor(x2, <<6, 20, 42, 72>>, 1))

CosP(x2) == Taylor(x2, <<2, 12, 30, 56, 90>>, 1)

Square(x) == Mul(x, x)

\* sin x for 0 <= x <= pi/2.
SinQ(x) ==
    IF Le(x, QUARTER_PI) THEN SinP(x, Square(x))
    ELSE CosP(Square(Add(Sub(HALF_PI, x), Div(PI_ERR, FromInt(2)))))

\* The angle of the first quadrant whose sine is |sin r|, 0 <= r < 2 pi.
Quadrant(r) ==
    IF Le(r, HALF_PI) THEN r
    ELSE IF Le(r, PI) THEN Add(Sub(PI, r), PI_ERR)
    ELSE IF Le(r, Add(PI, HALF_PI)) THEN Sub(Sub(r, PI), PI_ERR)
    ELSE Add(Sub(TWO_PI, r), Mul(FromInt(2), PI_ERR))

\* sin r for 0 <= r < 2 pi, reduced to the first quadrant.
SinR(r) == Signed(IF Le(r, PI) THEN 1 ELSE -1, SinQ(Quadrant(r)))

\* f32::sin and f32::cos, of radians, to an absolute error below 1e-6 (below
\* 2e-7 for |a| <= 2 pi).
Sin(a) == IF IsNaN(a) THEN NaN ELSE Signed(a[1], SinR(Fmod(Abs(a), TWO_PI)))

Cos(a) == IF IsNaN(a) THEN NaN ELSE SinR(Fmod(Add(Abs(a), HALF_PI), TWO_PI))

\* f32::to_radians: self * (PI / 180.0)
ToRadians(a) == Mul(a, RADS_PER_DEG)

\* f32::to_degrees: self * 57.2957795130823208767981548141051703
ToDegrees(a) == Mul(a, DEGS_PER_RAD)

\* x2 * t subtracted from 1 / n, a factor of the series of atan.
AtanTerm(x2, n, t) == Sub(Div(One, FromInt(n)), Mul(x2, t))

RECURSIVE AtanSeries(_, _)
\* The factors AtanTerm(u2, n, ...) for n, n + 2, ..., 13 around 1 / 15.
AtanSeries(u2, n) ==
    IF n = 15 THEN Div(One, FromInt(15))
    ELSE AtanTerm(u2, n, AtanSeries(u2, n + 2))

\* atan u for |u| <= tan(pi/12), by its Taylor polynomial of degree 15.
AtanP(u, u2) == Mul(u, AtanSeries(u2, 1))

AtanS(u) == AtanP(u, Square(u))

\* atan t for 0 <= t <= 1: above tan(pi/12), atan t is pi/6 plus
\* atan((sqrt(3) t - 1) / (sqrt(3) + t)).
AtanArg(t) ==
    IF Gt(t, TAN_PI_12) THEN Div(Sub(Mul(SQRT_3, t), One), Add(SQRT_3, t))
    ELSE t

AtanShift(t, atan) == IF Gt(t, TAN_PI_12) THEN Add(SIXTH_PI, atan) ELSE atan

AtanU(t) == AtanShift(t, AtanS(AtanArg(t)))

\* The angle of the point (x, y) of the first quadrant, from the angle of the
\* point with the coordinates in ascending order.
AngleSearch(y, x, atan) == IF Gt(y, x) THEN Sub(HALF_PI, atan) ELSE atan

AtanQ(y, x) == AngleSearch(y, x, AtanU(Div(Min(x, y), Max(x, y))))

\* The angle in [0, pi] of a point with x of this sign, from the angle of its
\* mirror image in the first quadrant.
AtanHalf(x, atan) == IF x[1] < 0 THEN Sub(PI, atan) ELSE atan

\* f32::atan2: y.atan2(x), the angle of the point (x, y), in [-pi, pi], to
\* an absolute error below 1e-6.
Atan2(y, x) ==
    IF IsNaN(x) \/ IsNaN(y) THEN NaN
    ELSE IF x[1] = 0 /\ y[1] = 0 THEN Zero
    ELSE Signed(y[1], AtanHalf(x, AtanQ(Abs(y), Abs(x))))

\* ------------------------------------------------------------ color.rs

\* enum ColorSpace
ColorSpace ==
    {"Srgb", "Hsl", "Hwb", "Lab", "Lch", "Oklab", "Oklch", "SrgbLinear",
     "DisplayP3", "A98Rgb", "ProphotoRgb", "Rec2020", "XyzD50", "XyzD65"}

\* bitflags ColorFlags : u8, a set of these bits.
C0_IS_NONE == 1

C1_IS_NONE == 2

C2_IS_NONE == 4

ALPHA_IS_NONE == 8

ColorFlags == SUBSET {C0_IS_NONE, C1_IS_NONE, C2_IS_NONE, ALPHA_IS_NONE}

\* Option<f32>: None is <<>>, Some(v) is <<v>>.
None == <<>>

Some(v) == <<v>>

\* impl From<f32> for ComponentDetails
From_f32(value) == [value |-> value, is_none |-> FALSE]

\* The mutant of From_Option: None keeps no marker.
From_Option_unmarked(value) ==
    IF value /= None THEN [value |-> value[1], is_none |-> FALSE]
    ELSE [value |-> Zero, is_none |-> FALSE]

\* impl From<Option<f32>> for ComponentDetails
From_Option(value) ==
    IF value /= None THEN [value |-> value[1], is_none |-> FALSE]
    ELSE [value |-> Zero, is_none |-> TRUE]

\* An argument of Color::new, an impl Into<ComponentDetails>: the type it
\* is passed as and the value passed.
ArgF32(v) == [type |-> "f32", arg |-> <<v>>]

ArgOption(o) == [type |-> "Option", arg |-> o]

\* Into<ComponentDetails>::into, by the type of the argument.
Into(a) ==
    IF a.type = "f32" THEN From_f32(a.arg[1]) ELSE From_Option(a.arg)

\* Color::new
ColorNew(color_space, c0, c1, c2, alpha) ==
    LET d0 == Into(c0)
        d1 == Into(c1)
        d2 == Into(c2)
        da == Into(alpha)
        flags == (IF d0.is_none THEN {C0_IS_NONE} ELSE {})
                   \cup (IF d1.is_none THEN {C1_IS_NONE} ELSE {})
                   \cup (IF d2.is_none THEN {C2_IS_NONE} ELSE {})
                   \cup (IF da.is_none THEN {ALPHA_IS_NONE} ELSE {})
    IN  [components |-> <<d0.value, d1.value, d2.value>>,
         flags |-> flags,
         color_space |-> color_space,
         alpha |-> da.value]

\* The types that implement ColorSpaceModel, each named as its COLOR_SPACE.
ColorSpaceModel ==
    {"Srgb", "SrgbLinear", "Hsl", "Hwb", "Lab", "Lch", "XyzD50", "XyzD65"}

\* The #[repr(C)] structs.  model is the type of the value (its PhantomData
\* tags for Rgb and Xyz).
Rgb(model, red, green, blue, flags) ==
    [model |-> model, red |-> red, green |-> green, blue |-> blue, flags |-> flags]

Hsl(hue, saturation, lightness, flags) ==
    [model |-> "Hsl", hue |-> hue, saturation |-> saturation,
     lightness |-> lightness, flags |-> flags]

Hwb(hue, whiteness, blackness, flags) ==
    [model |-> "Hwb", hue |-> hue, whiteness |-> whiteness,
     blackness |-> blackness, flags |-> flags]

Lab(lightness, a, b, flags) ==
    [model |-> "Lab", lightness |-> lightness, a |-> a, b |-> b, flags |-> flags]

Lch(lightness, chroma, hue, flags) ==
    [model |-> "Lch", lightness |-> lightness, chroma |-> chroma, hue |-> hue,
     flags |-> flags]

Xyz(model, x, y, z, flags) ==
    [model |-> model, x |-> x, y |-> y, z |-> z, flags |-> flags]

\* The value a struct of type M has when it is laid over three f32 and the
\* flags byte that follows them.
Overlay(M, c, flags) ==
    CASE M \in {"Srgb", "SrgbLinear"} -> Rgb(M, c[1], c[2], c[3], flags)
      [] M = "Hsl" -> Hsl(c[1], c[2], c[3], flags)
      [] M = "Hwb" -> Hwb(c[1], c[2], c[3], flags)
      [] M = "Lab" -> Lab(c[1], c[2], c[3], flags)
      [] M = "Lch" -> Lch(c[1], c[2], c[3], flags)
      [] M \in {"XyzD50", "XyzD65"} -> Xyz(M, c[1], c[2], c[3], flags)

\* What a call did: it returned a value, or it panicked at a line of its
\* source file.  For to_color_space the record also holds what was computed
\* on the way: path, the spaces the value went through, beginning with the
\* source space; steps, the typed models in the order they were produced;
\* assembled, the local _result when it was computed.
Outcome(outcome, value, line, path, steps, assembled) ==
    [outcome |-> outcome, value |-> value, line |-> line, path |-> path,
     steps |-> steps, assembled |-> assembled]

Returned(v) == Outcome("returned", <<v>>, 0, <<>>, <<>>, <<>>)

Panicked(line) == Outcome("panic", <<>>, line, <<>>, <<>>, <<>>)

\* The mutant of as_model: the tag is not compared.
as_model_unchecked(self, C) ==
    Returned(Overlay(C, self.components, self.flags))

\* Color::as_model::<C>
as_model(self, C) ==
    IF self.color_space /= C THEN Panicked(141)
    ELSE Returned(Overlay(C, self.components, self.flags))

\* ColorSpaceModel::components
components(m) ==
    CASE m.model \in {"Srgb", "SrgbLinear"} -> <<m.red, m.green, m.blue>>
      [] m.model = "Hsl" -> <<m.hue, m.saturation, m.lightness>>
      [] m.model = "Hwb" -> <<m.hue, m.whiteness, m.blackness>>
      [] m.model = "Lab" -> <<m.lightness, m.a, m.b>>
      [] m.model = "Lch" -> <<m.lightness, m.chroma, m.hue>>
      [] m.model \in {"XyzD50", "XyzD65"} -> <<m.x, m.y, m.z>>

\* ColorSpaceModel::into_color
into_color(m, alpha) ==
    [components |-> components(m), flags |-> m.flags, color_space |-> m.model,
     alpha |-> alpha]

\* WhitePoint for D50
D50_WHITE_POINT ==
    <<Decimal(964295676, 9), F(1, 0), Decimal(825104603, 9)>>

\* ------------------------------------------------------ convert.rs, util

\* util::normalize_hue
normalize_hue(hue) == RemEuclid(hue, F(360, 0))

\* The mutant of rgb_to_hue_min_max: the hue of a gray is 0.0.
rgb_to_hue_min_max_zero(red, green, blue) ==
    LET hue(max, delta) ==
            IF Ne(delta, Zero)
            THEN Mul(F(60, 0),
                     IF Eq(max, red)
                     THEN Add(Div(Sub(green, blue), delta),
                              IF Lt(green, blue) THEN F(6, 0) ELSE Zero)
                     ELSE IF Eq(max, green)
                     THEN Add(Div(Sub(blue, red), delta), F(2, 0))
                     ELSE Add(Div(Sub(red, green), delta), F(4, 0)))
            ELSE Zero
        result(max, min) == <<hue(max, Sub(max, min)), min, max>>
    IN  result(Max(Max(red, green), blue), Min(Min(red, green), blue))

\* util::rgb_to_hue_min_max, returning <<hue, min, max>>.
rgb_to_hue_min_max(red, green, blue) ==
    LET hue(max, delta) ==
            IF Ne(delta, Zero)
            THEN Mul(F(60, 0),
                     IF Eq(max, red)
                     THEN Add(Div(Sub(green, blue), delta),
                              IF Lt(green, blue) THEN F(6, 0) ELSE Zero)
                     ELSE IF Eq(max, green)
                     THEN Add(Div(Sub(blue, red), delta), F(2, 0))
                     ELSE Add(Div(Sub(red, green), delta), F(4, 0)))
            ELSE NaN
        result(max, min) == <<hue(max, Sub(max, min)), min, max>>
    IN  result(Max(Max(red, green), blue), Min(Min(red, green), blue))

\* util::rgb_to_hsl
rgb_to_hsl(from) ==
    LET saturation(max, lightness, delta) ==
            IF Ne(delta, Zero)
            THEN IF Eq(lightness, Zero) \/ Eq(lightness, F(1, 0)) THEN Zero
                 ELSE Div(Sub(max, lightness),
                          Min(lightness, Sub(F(1, 0), lightness)))
            ELSE Zero
        result(hue, min, max, lightness) ==
            <<hue, saturation(max, lightness, Sub(max, min)), lightness>>
        hsl(hmm) == result(hmm[1], hmm[2], hmm[3],
                           Div(Add(hmm[2], hmm[3]), F(2, 0)))
    IN  hsl(rgb_to_hue_min_max(from[1], from[2], from[3]))

\* hue_to_rgb, the helper inside util::hsl_to_rgb
hue_to_rgb(t1, t2, hue0) ==
    LET branch(hue) ==
            IF Lt(Mul(hue, F(6, 0)), F(360, 0))
            THEN Add(t1, Div(Mul(Sub(t2, t1), hue), F(60, 0)))
            ELSE IF Lt(Mul(hue, F(2, 0)), F(360, 0)) THEN t2
            ELSE IF Lt(Mul(hue, F(3, 0)), F(720, 0))
            THEN Add(t1, Div(Mul(Sub(t2, t1), Sub(F(240, 0), hue)), F(60, 0)))
            ELSE t1
    IN  branch(normalize_hue(hue0))

\* util::hsl_to_rgb
hsl_to_rgb(from) ==
    LET t2(saturation, lightness) ==
            IF Le(lightness, F(0, 50000))
            THEN Mul(lightness, Add(saturation, F(1, 0)))
            ELSE Sub(Add(lightness, saturation), Mul(lightness, saturation))
        channel(hue, i) ==
            CASE i = 1 -> Add(hue, F(120, 0))
              [] i = 2 -> hue
              [] i = 3 -> Sub(hue, F(120, 0))
        result(hue, t1, t_2) ==
            [i \in 1..3 |-> hue_to_rgb(t1, t_2, channel(hue, i))]
        rgb(hue, lightness, t_2) ==
            result(hue, Sub(Mul(lightness, F(2, 0)), t_2), t_2)
    IN  rgb(from[1], from[3], t2(from[2], from[3]))

\* util::rgb_to_hwb
rgb_to_hwb(from) ==
    LET hwb(hmm) == <<hmm[1], hmm[2], Sub(F(1, 0), hmm[3])>>
    IN  hwb(rgb_to_hue_min_max(from[1], from[2], from[3]))

\* The mutant of hwb_to_rgb: whiteness + blackness > 1.0 is not tested.
hwb_to_rgb_no_collapse(from) ==
    LET hue == from[1]
        whiteness == from[2]
        blackness == from[3]
        scaled(rgb, x) == [i \in 1..3 |-> Add(Mul(rgb[i], x), whiteness)]
    IN  scaled(hsl_to_rgb(<<hue, F(1, 0), F(0, 50000)>>),
               Sub(Sub(F(1, 0), whiteness), blackness))

\* util::hwb_to_rgb
hwb_to_rgb(from) ==
    LET hue == from[1]
        whiteness == from[2]
        blackness == from[3]
        scaled(rgb, x) == [i \in 1..3 |-> Add(Mul(rgb[i], x), whiteness)]
        grays(gray) == <<gray, gray, gray>>
    IN  IF Gt(Add(whiteness, blackness), F(1, 0))
        THEN grays(Div(whiteness, Add(whiteness, blackness)))
        ELSE scaled(hsl_to_rgb(<<hue, F(1, 0), F(0, 50000)>>),
                    Sub(Sub(F(1, 0), whiteness), blackness))

\* The mutant of polar_to_orthogonal: the hue is not taken to radians.
polar_to_orthogonal_degrees(from) ==
    LET result(lightness, chroma, hue) ==
            <<lightness, Mul(chroma, Cos(hue)), Mul(chroma, Sin(hue))>>
    IN  result(from[1], from[2], from[3])

\* util::polar_to_orthogonal
polar_to_orthogonal(from) ==
    LET result(lightness, chroma, hue) ==
            <<lightness, Mul(chroma, Cos(hue)), Mul(chroma, Sin(hue))>>
    IN  result(from[1], from[2], ToRadians(from[3]))

\* util::orthogonal_to_polar
orthogonal_to_polar(from) ==
    LET lightness == from[1]
        a == from[2]
        b == from[3]
        hue == RemEuclid(ToDegrees(Atan2(b, a)), F(360, 0))
        chroma == SqrtSumSquares(a, b)
    IN  <<lightness, chroma, hue>>

\* ------------------------------------------- convert.rs, typed transforms

\* fn transform: the components as a row vector times the 3x3 part of mat.
transform(from, mat) ==
    [j \in 1..3 |-> Add(Add(Mul(from[1], mat[1][j]), Mul(from[2], mat[2][j])),
                        Mul(from[3], mat[3][j]))]

\* Srgb::to_linear_light
Srgb_to_linear_light(self) ==
    LET map(c) == LET abs == Abs(c)
                  IN  IF Lt(abs, F(0, 4045)) THEN Div(c, F(12, 92000))
                      ELSE Mul(Signum(c),
                               Powf_2_4(Div(Add(abs, F(0, 5500)), F(1, 5500))))
        result(r) == Rgb("SrgbLinear", r[1], r[2], r[3], self.flags)
    IN  result([i \in 1..3 |-> map(components(self)[i])])

\* Srgb::to_hsl
Srgb_to_hsl(self) ==
    LET result(r) == Hsl(r[1], r[2], r[3], self.flags)
    IN  result(rgb_to_hsl(components(self)))

\* Srgb::to_hwb
Srgb_to_hwb(self) ==
    LET result(r) == Hwb(r[1], r[2], r[3], self.flags)
    IN  result(rgb_to_hwb(components(self)))

\* SrgbLinear::to_gamma_encoded
SrgbLinear_to_gamma_encoded(self) ==
    LET map(c) == LET abs == Abs(c)
                  IN  IF Gt(abs, Decimal(31308, 7))
                      THEN Mul(Signum(c),
                               Sub(Mul(F(1, 5500), Powf_1_2_4(abs)), F(0, 5500)))
                      ELSE Mul(F(12, 92000), c)
        result(r) == Rgb("Srgb", r[1], r[2], r[3], self.flags)
    IN  result([i \in 1..3 |-> map(components(self)[i])])

\* const TO_XYZ of SrgbLinear::to_xyz_d65, by rows.
TO_XYZ ==
    <<<<Decimal(412390799, 9),
        Decimal(212639006, 9),
        Decimal(193308187, 10)>>,
      <<Decimal(357584339, 9),
        Decimal(715168679, 9),
        Decimal(119194780, 9)>>,
      <<Decimal(180480788, 9),
        Decimal(721923154, 10),
        Decimal(950532152, 9)>>>>

\* SrgbLinear::to_xyz_d65
SrgbLinear_to_xyz_d65(self) ==
    LET result(r) == Xyz("XyzD65", r[1], r[2], r[3], self.flags)
    IN  result(transform(components(self), TO_XYZ))

\* Hsl::to_srgb
Hsl_to_srgb(self) ==
    LET result(r) == Rgb("Srgb", r[1], r[2], r[3], self.flags)
    IN  result(hsl_to_rgb(components(self)))

\* Hwb::to_srgb
Hwb_to_srgb(self) ==
    LET result(r) == Rgb("Srgb", r[1], r[2], r[3], self.flags)
    IN  result(hwb_to_rgb(components(self)))

\* Lab::KAPPA = 24389 / 27 and Lab::EPSILON = 216 / 24389
KAPPA == Div(FromInt(24389), FromInt(27))

EPSILON == Div(FromInt(216), FromInt(24389))

\* Lab::to_xyz_d50
Lab_to_xyz_d50(self) ==
    LET cubed(f) == Mul(Mul(f, f), f)
        x(f0, f0_cubed) ==
            IF Gt(f0_cubed, EPSILON) THEN f0_cubed
            ELSE Div(Sub(Mul(F(116, 0), f0), F(16, 0)), KAPPA)
        y == IF Gt(self.lightness, Mul(KAPPA, EPSILON))
             THEN cubed(Div(Add(self.lightness, F(16, 0)), F(116, 0)))
             ELSE Div(self.lightness, KAPPA)
        z(f2, f2_cubed) ==
            IF Gt(f2_cubed, EPSILON) THEN f2_cubed
            ELSE Div(Sub(Mul(F(116, 0), f2), F(16, 0)), KAPPA)
        result(f0, f2) ==
            Xyz("XyzD50", Mul(x(f0, cubed(f0)), D50_WHITE_POINT[1]),
                Mul(y, D50_WHITE_POINT[2]),
                Mul(z(f2, cubed(f2)), D50_WHITE_POINT[3]), self.flags)
        xyz(f1) == result(Add(f1, Div(self.a, F(500, 0))),
                          Sub(f1, Div(self.b, F(200, 0))))
    IN  xyz(Div(Add(self.lightness, F(16, 0)), F(116, 0)))

\* Lab::to_lch
Lab_to_lch(self) ==
    LET result(r) == Lch(r[1], r[2], r[3], self.flags)
    IN  result(orthogonal_to_polar(components(self)))

\* Lch::to_lab
Lch_to_lab(self) ==
    LET result(r) == Lab(r[1], r[2], r[3], self.flags)
    IN  result(polar_to_orthogonal(components(self)))

\* const MAT of XyzD50::to_xyz_d65, by rows.
XyzD50_MAT ==
    <<<<Decimal(955473452, 9),
        Neg(Decimal(283697070, 10)),
        Decimal(123140017, 10)>>,
      <<Neg(Decimal(230985369, 10)),
        Decimal(100999546, 8),
        Neg(Decimal(205076964, 10))>>,
      <<Decimal(632593087, 10),
        Decimal(210413990, 10),
        Decimal(133036594, 8)>>>>

\* XyzD50::to_xyz_d65
XyzD50_to_xyz_d65(self) ==
    LET result(r) == Xyz("XyzD65", r[1], r[2], r[3], self.flags)
    IN  result(transform(components(self), XyzD50_MAT))

\* XyzD50::to_lab
XyzD50_to_lab(self) ==
    LET adapted == <<Div(self.x, D50_WHITE_POINT[1]),
                     Div(self.y, D50_WHITE_POINT[2]),
                     Div(self.z, D50_WHITE_POINT[3])>>
        map(v) == IF Gt(v, EPSILON) THEN Cbrt(v)
                  ELSE Div(Add(Mul(KAPPA, v), F(16, 0)), F(116, 0))
        result(f0, f1, f2) ==
            Lab(Sub(Mul(F(116, 0), f1), F(16, 0)),
                Mul(F(500, 0), Sub(f0, f1)),
                Mul(F(200, 0), Sub(f1, f2)), self.flags)
        lab(f) == result(f[1], f[2], f[3])
    IN  lab([i \in 1..3 |-> map(adapted[i])])

\* const FROM_XYZ of XyzD65::to_srgb, by rows.
FROM_XYZ ==
    <<<<Decimal(324096994, 8),
        Neg(Decimal(969243636, 9)),
        Decimal(556300797, 10)>>,
      <<Neg(Decimal(153738318, 8)),
        Decimal(187596750, 8),
        Neg(Decimal(203976959, 9))>>,
      <<Neg(Decimal(498610760, 9)),
        Decimal(415550574, 10),
        Decimal(105697151, 8)>>>>

\* XyzD65::to_srgb
XyzD65_to_srgb(self) ==
    LET result(r) == Rgb("SrgbLinear", r[1], r[2], r[3], self.flags)
    IN  result(transform(components(self), FROM_XYZ))

\* const MAT of XyzD65::to_xyz_d50, by rows.
XyzD65_MAT ==
    <<<<Decimal(104792982, 8),
        Decimal(296278157, 10),
        Neg(Decimal(924305815, 11))>>,
      <<Decimal(229467933, 10),
        Decimal(990434485, 9),
        Decimal(150551449, 10)>>,
      <<Neg(Decimal(501922295, 10)),
        Neg(Decimal(170738250, 10)),
        Decimal(751874290, 9)>>>>

\* The mutant of XyzD65::to_xyz_d50: the result has no flags.
XyzD65_to_xyz_d50_no_flags(self) ==
    LET result(r) == Xyz("XyzD50", r[1], r[2], r[3], {})
    IN  result(transform(components(self), XyzD65_MAT))

\* XyzD65::to_xyz_d50
XyzD65_to_xyz_d50(self) ==
    LET result(r) == Xyz("XyzD50", r[1], r[2], r[3], self.flags)
    IN  result(transform(components(self), XyzD65_MAT))

\* ------------------------------------------- convert.rs, to_color_space

\* The mutant of DirectPairs: the arm (Srgb, Hsl) is missing.
DirectPairs_no_srgb_hsl ==
    {<<"Hsl", "Srgb">>, <<"Srgb", "Hwb">>, <<"Hwb", "Srgb">>,
     <<"Lch", "Lab">>, <<"Oklch", "Oklab">>, <<"Lab", "Lch">>, <<"Oklab", "Oklch">>}

\* The pairs handled directly, the arms of the first match.
DirectPairs ==
    {<<"Srgb", "Hsl">>, <<"Hsl", "Srgb">>, <<"Srgb", "Hwb">>, <<"Hwb", "Srgb">>,
     <<"Lch", "Lab">>, <<"Oklch", "Oklab">>, <<"Lab", "Lch">>, <<"Oklab", "Oklch">>}

\* The util function an arm of the first match applies to self.components.
DirectComponents(self, color_space) ==
    LET from == self.color_space
    IN  CASE from = "Srgb" /\ color_space = "Hsl" -> rgb_to_hsl(self.components)
          [] from = "Hsl" -> hsl_to_rgb(self.components)
          [] from = "Srgb" /\ color_space = "Hwb" -> rgb_to_hwb(self.components)
          [] from = "Hwb" -> hwb_to_rgb(self.components)
          [] from \in {"Lch", "Oklch"} -> polar_to_orthogonal(self.components)
          [] from \in {"Lab", "Oklab"} -> orthogonal_to_polar(self.components)

\* The mutant of DirectConversion: the result keeps the tag of the source.
DirectConversion_source_tag(self, color_space) ==
    LET new(r) == ColorNew(self.color_space, ArgF32(r[1]), ArgF32(r[2]),
                           ArgF32(r[3]), ArgF32(self.alpha))
    IN  new(DirectComponents(self, color_space))

\* An arm of the first match: Color::new over the three f32 results of the
\* util function and self.alpha.
DirectConversion(self, color_space) ==
    LET new(r) == ColorNew(color_space, ArgF32(r[1]), ArgF32(r[2]),
                           ArgF32(r[3]), ArgF32(self.alpha))
    IN  new(DirectComponents(self, color_space))

\* The line of the todo!() arm of a space in the second match (the source)
\* and in the third (the target); 0 for a space with a chain.
SourceTodo(color_space) ==
    CASE color_space = "Oklab" -> 80
      [] color_space = "Oklch" -> 81
      [] color_space = "DisplayP3" -> 83
      [] color_space = "A98Rgb" -> 84
      [] color_space = "ProphotoRgb" -> 85
      [] color_space = "Rec2020" -> 86
      [] OTHER -> 0

TargetTodo(color_space) ==
    CASE color_space = "Oklab" -> 117
      [] color_space = "Oklch" -> 118
      [] color_space = "DisplayP3" -> 120
      [] color_space = "A98Rgb" -> 121
      [] color_space = "ProphotoRgb" -> 122
      [] color_space = "Rec2020" -> 123
      [] OTHER -> 0

\* self.as_model::<M>() where the call goes on with the view.
View(self, M) == as_model(self, M).value[1]

Last(s) == s[Len(s)]

\* The second match: the typed models from the view of self to the value
\* of xyz, which is the last.
ForwardChain(self) ==
    LET from == self.color_space
        xyz_d65(s) == s \o <<XyzD65_to_xyz_d50(Last(s))>>
        linear(s) == xyz_d65(s \o <<SrgbLinear_to_xyz_d65(Last(s))>>)
        srgb(s) == linear(s \o <<Srgb_to_linear_light(Last(s))>>)
        hsl(s) == s \o <<Hsl_to_srgb(Last(s))>>
        hwb(s) == s \o <<Hwb_to_srgb(Last(s))>>
        lab(s) == s \o <<Lab_to_xyz_d50(Last(s))>>
        lch(s) == s \o <<Lch_to_lab(Last(s))>>
    IN  CASE from = "Srgb" -> srgb(<<View(self, "Srgb")>>)
          [] from = "Hsl" -> srgb(hsl(<<View(self, "Hsl")>>))
          [] from = "Hwb" -> srgb(hwb(<<View(self, "Hwb")>>))
          [] from = "Lab" -> lab(<<View(self, "Lab")>>)
          [] from = "Lch" -> lab(lch(<<View(self, "Lch")>>))
          [] from = "SrgbLinear" -> linear(<<View(self, "SrgbLinear")>>)
          [] from = "XyzD50" ->
               <<Xyz("XyzD50", self.components[1], self.components[2],
                     self.components[3], self.flags)>>
          [] from = "XyzD65" -> xyz_d65(<<View(self, "XyzD65")>>)

\* The mutant of ReverseChain: the arm of Hwb ends with to_hsl.
ReverseChain_hwb_as_hsl(xyz, color_space) ==
    LET xyz_d65(s) == s \o <<XyzD50_to_xyz_d65(xyz)>>
        linear(s) == s \o <<XyzD65_to_srgb(Last(s))>>
        srgb(s) == s \o <<SrgbLinear_to_gamma_encoded(Last(s))>>
        hsl(s) == s \o <<Srgb_to_hsl(Last(s))>>
        hwb(s) == s \o <<Srgb_to_hwb(Last(s))>>
        lab(s) == s \o <<XyzD50_to_lab(xyz)>>
        lch(s) == s \o <<Lab_to_lch(Last(s))>>
    IN  CASE color_space = "Srgb" -> srgb(linear(xyz_d65(<<>>)))
          [] color_space = "Hsl" -> hsl(srgb(linear(xyz_d65(<<>>))))
          [] color_space = "Hwb" -> hsl(srgb(linear(xyz_d65(<<>>))))
          [] color_space = "Lab" -> lab(<<>>)
          [] color_space = "Lch" -> lch(lab(<<>>))
          [] color_space = "SrgbLinear" -> linear(xyz_d65(<<>>))
          [] color_space = "XyzD50" -> <<>>
          [] color_space = "XyzD65" -> xyz_d65(<<>>)

\* The third match: the typed models produced from xyz, the last of which
\* (xyz itself when there is none) goes to into_color.
ReverseChain(xyz, color_space) ==
    LET xyz_d65(s) == s \o <<XyzD50_to_xyz_d65(xyz)>>
        linear(s) == s \o <<XyzD65_to_srgb(Last(s))>>
        srgb(s) == s \o <<SrgbLinear_to_gamma_encoded(Last(s))>>
        hsl(s) == s \o <<Srgb_to_hsl(Last(s))>>
        hwb(s) == s \o <<Srgb_to_hwb(Last(s))>>
        lab(s) == s \o <<XyzD50_to_lab(xyz)>>
        lch(s) == s \o <<Lab_to_lch(Last(s))>>
    IN  CASE color_space = "Srgb" -> srgb(linear(xyz_d65(<<>>)))
          [] color_space = "Hsl" -> hsl(srgb(linear(xyz_d65(<<>>))))
          [] color_space = "Hwb" -> hwb(srgb(linear(xyz_d65(<<>>))))
          [] color_space = "Lab" -> lab(<<>>)
          [] color_space = "Lch" -> lch(lab(<<>>))
          [] color_space = "SrgbLinear" -> linear(xyz_d65(<<>>))
          [] color_space = "XyzD50" -> <<>>
          [] color_space = "XyzD65" -> xyz_d65(<<>>)

\* The spaces of a sequence of typed models.
Spaces(steps) == [i \in 1..Len(steps) |-> steps[i].model]

\* The conversion through XYZ-D50: the second match, the third match and
\* the todo!() that ends the function.
Pivot(self, color_space) ==
    LET todo(line, steps, assembled) ==
            Outcome("panic", <<>>, line, Spaces(steps), steps, assembled)
        result(steps) == todo(128, steps, <<into_color(Last(steps), self.alpha)>>)
        reverse(fwd) ==
            IF TargetTodo(color_space) /= 0
            THEN todo(TargetTodo(color_space), fwd, <<>>)
            ELSE result(fwd \o ReverseChain(Last(fwd), color_space))
    IN  IF SourceTodo(self.color_space) /= 0
        THEN Outcome("panic", <<>>, SourceTodo(self.color_space),
                     <<self.color_space>>, <<>>, <<>>)
        ELSE reverse(ForwardChain(self))

\* The first match, and what follows it when no arm returns.
Convert(self, color_space) ==
    IF <<self.color_space, color_space>> \in DirectPairs
    THEN Outcome("returned", <<DirectConversion(self, color_space)>>, 0,
                 <<self.color_space, color_space>>, <<>>, <<>>)
    ELSE Pivot(self, color_space)

\* The mutant of to_color_space: no early return for equal spaces.
to_color_space_no_early_return(self, color_space) == Convert(self, color_space)

\* Color::to_color_space
to_color_space(self, color_space) ==
    IF self.color_space = color_space
    THEN Outcome("returned", <<self>>, 0, <<self.color_space>>, <<>>, <<>>)
    ELSE Convert(self, color_space)

\* ------------------------------------------------------ the state machine

\* The f32 inputs of channel i of a space: Base + k * Step, k in 0..MaxLevel.
\* Hues and the a, b axes get a grid that leaves the first quadrant.
Base(color_space, i) ==
    IF color_space \in {"Lab", "Oklab"} /\ i \in {2, 3} THEN Neg(F(40, 0)) ELSE Zero

Step(color_space, i) ==
    CASE color_space \in {"Hsl", "Hwb"} /\ i = 1 -> F(100, 0)
      [] color_space \in {"Lch", "Oklch"} /\ i = 3 -> F(100, 0)
      [] color_space \in {"Lch", "Oklch"} /\ i = 2 -> F(30, 0)
      [] color_space \in {"Lab", "Oklab", "Lch", "Oklch"} /\ i = 1 -> F(50, 0)
      [] color_space \in {"Lab", "Oklab"} /\ i \in {2, 3} -> F(40, 0)
      [] OTHER -> F(0, 50000)

\* The arguments Color::new is called with for channel i: None, or Some of
\* a grid value.
ComponentArgs(color_space, i) ==
    {ArgOption(None)}
      \cup {ArgOption(Some(Add(Base(color_space, i),
                                  Mul(FromInt(k), Step(color_space, i))))) :
              k \in 0..MaxLevel}

\* The arguments Color::new is called with for alpha: None, or an f32.
AlphaArgs == {ArgOption(None)} \cup {ArgF32(Mul(FromInt(k), F(0, 50000))) : k \in 1..MaxAlpha}

VARIABLES
    pc,     \* "start", "ready" (self is bound), "called" (a call was made)
    self,   \* the Color calls are made on: <<>> or <<color>>
    hops,   \* how many times in a row a returned Color became self
    call,   \* the last call: [op, target]
    args,   \* the arguments of Color::new when it was the last call
    ret     \* what the last call did, an Outcome

vars == <<pc, self, hops, call, args, ret>>

NoCall == [op |-> "none", target |-> ""]

NoOutcome == Outcome("none", <<>>, 0, <<>>, <<>>, <<>>)

Init ==
    /\ pc = "start"
    /\ self = <<>>
    /\ hops = 0
    /\ call = NoCall
    /\ args = <<>>
    /\ ret = NoOutcome

\* let self = Color::new(color_space, c0, c1, c2, alpha);
New(color_space, c0, c1, c2, alpha) ==
    /\ pc = "start"
    /\ pc' = "ready"
    /\ self' = <<ColorNew(color_space, c0, c1, c2, alpha)>>
    /\ hops' = 0
    /\ call' = [op |-> "new", target |-> color_space]
    /\ args' = <<c0, c1, c2, alpha>>
    /\ ret' = Returned(ColorNew(color_space, c0, c1, c2, alpha))

\* self.to_color_space(color_space)
ToColorSpace(color_space) ==
    /\ pc = "ready"
    /\ pc' = "called"
    /\ call' = [op |-> "to_color_space", target |-> color_space]
    /\ args' = <<>>
    /\ ret' = to_color_space(self[1], color_space)
    /\ UNCHANGED <<self, hops>>

\* self.as_model::<C>()
AsModel(C) ==
    /\ pc = "ready"
    /\ pc' = "called"
    /\ call' = [op |-> "as_model", target |-> C]
    /\ args' = <<>>
    /\ ret' = as_model(self[1], C)
    /\ UNCHANGED <<self, hops>>

\* let self = result;  the Color a conversion to another space returned is
\* converted further.
Rebind ==
    /\ pc = "called"
    /\ call.op = "to_color_space"
    /\ call.target /= self[1].color_space
    /\ ret.outcome = "returned"
    /\ hops < MaxHops
    /\ pc' = "ready"
    /\ self' = ret.value
    /\ hops' = hops + 1
    /\ call' = NoCall
    /\ args' = <<>>
    /\ ret' = NoOutcome

Next ==
    \/ \E color_space \in ColorSpace :
         \E c0 \in ComponentArgs(color_space, 1),
            c1 \in ComponentArgs(color_space, 2),
            c2 \in ComponentArgs(color_space, 3),
            alpha \in AlphaArgs :
              New(color_space, c0, c1, c2, alpha)
    \/ \E color_space \in ColorSpace : ToColorSpace(color_space)
    \/ \E C \in ColorSpaceModel : AsModel(C)
    \/ Rebind

Spec == Init /\ [][Next]_vars

\* ------------------------------------- the conversions of mod tests, widened

\* The f32 values channel i of a space is given in fn conversions and in the
\* checks below: the samples of the test, and values around them.
SampleValues(color_space, i) ==
    CASE color_space = "Srgb" ->
           {F(0, 82350), F(0, 41180), F(0, 11760), F(0, 50000), F(1, 0),
            Decimal(49999997, 8), Neg(Decimal(100000036, 8))}
      [] color_space \in {"Hsl", "Hwb"} /\ i = 1 ->
           {F(25, 640), F(100, 0), F(359, 50000)}
      [] color_space = "Hsl" /\ i = 2 -> {F(0, 100), F(0, 10000), F(0, 75000)}
      [] color_space = "Hsl" /\ i = 3 -> {F(0, 25000), F(0, 47060), F(0, 50000)}
      [] color_space = "Hwb" /\ i = 2 -> {F(0, 11760), F(0, 25000), F(0, 60000)}
      [] color_space = "Hwb" /\ i = 3 ->
           {F(0, 17650), F(0, 25000), F(0, 39950), F(0, 60000)}
      [] color_space \in {"Lab", "Lch"} /\ i = 1 -> {F(56, 62930)}
      [] color_space = "Lab" /\ i = 2 -> {F(39, 23710), Neg(F(30, 0)), F(1, 0)}
      [] color_space = "Lab" /\ i = 3 ->
           {F(57, 55380), Neg(F(40, 0)), Neg(Decimal(1, 9))}
      [] color_space = "Lch" /\ i = 2 -> {F(69, 65620), F(30, 0)}
      [] color_space \in {"Lch", "Oklch"} /\ i = 3 ->
           {F(55, 71590), F(200, 0), F(359, 50000)}
      [] color_space \in {"Oklab", "Oklch"} /\ i = 1 -> {F(0, 50000)}
      [] color_space = "Oklab" /\ i = 2 -> {F(0, 10000), Neg(F(0, 10000))}
      [] color_space = "Oklab" /\ i = 3 -> {Neg(F(0, 20000)), F(0, 5000)}
      [] color_space = "Oklch" /\ i = 2 -> {F(0, 10000), F(0, 20000)}

\* The spaces fn conversions converts between: those of the first match.
SampleSpaces == {pair[1] : pair \in DirectPairs}

\* The arguments Color::new is given for channel i: an f32, as in the test,
\* or None.
SampleArgs(color_space, i) ==
    {ArgOption(None)} \cup {ArgF32(v) : v \in SampleValues(color_space, i)}

\* from_alpha: 1.0 as in the test, or None.
SampleAlpha == {ArgOption(None), ArgF32(F(1, 0))}

\* let from = Color::new(from_color_space, from_c0, from_c1, from_c2,
\*                       from_alpha);
From(from_color_space, from_c0, from_c1, from_c2, from_alpha) ==
    New(from_color_space, from_c0, from_c1, from_c2, from_alpha)

\* let result = from.to_color_space(to_color_space);  for a pair of the
\* first match.
Result(to) ==
    /\ pc = "ready"
    /\ <<self[1].color_space, to>> \in DirectPairs
    /\ ToColorSpace(to)

\* result.to_color_space(from.color_space): the result is converted back.
Back ==
    /\ pc = "called"
    /\ call.op = "to_color_space"
    /\ ret.outcome = "returned"
    /\ pc' = "back"
    /\ call' = [op |-> "back", target |-> self[1].color_space]
    /\ LET back(r) ==
               Outcome(r.outcome, r.value, 0,
                       <<self[1].color_space, call.target, self[1].color_space>>,
                       <<>>, ret.value)
       IN  ret' = back(to_color_space(ret.value[1], self[1].color_space))
    /\ UNCHANGED <<self, hops, args>>

\* The typed step of the chains from the model m to a space, for the pairs
\* of the first match that have one.
ChainSteps ==
    {<<"Srgb", "Hsl">>, <<"Srgb", "Hwb">>, <<"Hsl", "Srgb">>,
     <<"Hwb", "Srgb">>, <<"Lab", "Lch">>, <<"Lch", "Lab">>}

TypedStep(m, color_space) ==
    CASE m.model = "Srgb" /\ color_space = "Hsl" -> Srgb_to_hsl(m)
      [] m.model = "Srgb" /\ color_space = "Hwb" -> Srgb_to_hwb(m)
      [] m.model = "Hsl" -> Hsl_to_srgb(m)
      [] m.model = "Hwb" -> Hwb_to_srgb(m)
      [] m.model = "Lab" -> Lab_to_lch(m)
      [] m.model = "Lch" -> Lch_to_lab(m)

\* self.as_model::<M>().to_...().into_color(self.alpha): the step the chains
\* take between the two spaces of a pair of the first match.
ChainStep(color_space) ==
    /\ pc = "ready"
    /\ <<self[1].color_space, color_space>> \in ChainSteps
    /\ pc' = "called"
    /\ call' = [op |-> "chain_step", target |-> color_space]
    /\ args' = <<>>
    /\ LET step(m) ==
               Outcome("returned", <<into_color(m, self[1].alpha)>>, 0,
                       <<self[1].color_space, color_space>>, <<m>>, <<>>)
       IN  ret' = step(TypedStep(View(self[1], self[1].color_space),
                                 color_space))
    /\ UNCHANGED <<self, hops>>

NextConversions ==
    \/ \E from_color_space \in SampleSpaces :
         \E from_c0 \in SampleArgs(from_color_space, 1),
            from_c1 \in SampleArgs(from_color_space, 2),
            from_c2 \in SampleArgs(from_color_space, 3),
            from_alpha \in SampleAlpha :
              From(from_color_space, from_c0, from_c1, from_c2, from_alpha)
    \/ \E to \in ColorSpace : Result(to)
    \/ Back
    \/ \E color_space \in ColorSpace : ChainStep(color_space)

Conversions == Init /\ [][NextConversions]_vars

\* -------------------------------------------------------------- claims

\* The last call was self.to_color_space(call.target).
Converted == pc = "called" /\ call.op = "to_color_space"

Source == self[1].color_space

ComponentBits == {C0_IS_NONE, C1_IS_NONE, C2_IS_NONE}

\* C1: to_color_space is total: for every pair of spaces and every Color
\* the call returns a Color; it never panics or reaches a todo!().
C1_Total == Converted => ret.outcome = "returned"

\* C2: converting a Color to its own space returns a Color with the same
\* components, alpha, color_space and flags, in every one of the 14 spaces.
C2_Identity ==
    (Converted /\ call.target = Source) =>
        /\ ret.outcome = "returned"
        /\ ret.value[1].components = self[1].components
        /\ ret.value[1].alpha = self[1].alpha
        /\ ret.value[1].color_space = self[1].color_space
        /\ ret.value[1].flags = self[1].flags

\* A Color of a space without any conversion, with unspecified channels, was
\* converted to its own space.
C2_Witness ==
    /\ Converted
    /\ call.target = Source
    /\ Source = "Rec2020"
    /\ self[1].flags = {C1_IS_NONE, ALPHA_IS_NONE}
    /\ self[1].components[1] /= Zero
    /\ ret.outcome = "returned"

\* C3: a conversion to another space yields a Color tagged with the target
\* space whose alpha is the alpha of the input: the Color a direct arm
\* returns, and the Color the pivot path assembles in _result.
C3_TagAndAlpha ==
    (Converted /\ call.target /= Source) =>
        /\ ret.outcome = "returned" =>
             /\ ret.value[1].color_space = call.target
             /\ ret.value[1].alpha = self[1].alpha
        /\ ret.assembled /= <<>> =>
             /\ ret.assembled[1].color_space = call.target
             /\ ret.assembled[1].alpha = self[1].alpha

\* An Srgb Color with alpha 0.5 was converted to Hsl, and the call returned.
C3_Witness ==
    /\ Converted
    /\ Source = "Srgb"
    /\ call.target = "Hsl"
    /\ self[1].alpha = F(0, 50000)
    /\ ret.outcome = "returned"

MixedLineagePairs ==
    {<<"Srgb", "Hsl">>, <<"Srgb", "Hwb">>, <<"Hsl", "Srgb">>, <<"Hwb", "Srgb">>}

\* C4: on Srgb->Hsl, Srgb->Hwb, Hsl->Srgb and Hwb->Srgb each of the three
\* component-unspecified bits of the result is set iff all three are set in
\* the input.
C4_MixedLineageFlags ==
    (Converted /\ <<Source, call.target>> \in MixedLineagePairs) =>
        /\ ret.outcome = "returned"
        /\ \A bit \in ComponentBits :
             bit \in ret.value[1].flags <=> ComponentBits \subseteq self[1].flags

PolarPairs ==
    {<<"Lab", "Lch">>, <<"Lch", "Lab">>, <<"Oklab", "Oklch">>, <<"Oklch", "Oklab">>}

\* C5: on Lab->Lch, Lch->Lab, Oklab->Oklch and Oklch->Oklab the C0_IS_NONE
\* bit of the result equals that of the input and the lightness value is
\* copied unchanged.
C5_LightnessCarried ==
    (Converted /\ <<Source, call.target>> \in PolarPairs) =>
        /\ ret.outcome = "returned"
        /\ C0_IS_NONE \in ret.value[1].flags <=> C0_IS_NONE \in self[1].flags
        /\ ret.value[1].components[1] = self[1].components[1]

\* C6: a conversion to another space that returns carries the
\* ALPHA_IS_NONE bit of the input to the result.
C6_AlphaFlagCarried ==
    (Converted /\ call.target /= Source /\ ret.outcome = "returned") =>
        (ALPHA_IS_NONE \in ret.value[1].flags <=> ALPHA_IS_NONE \in self[1].flags)

\* The three named fields of a typed view are the three values c.
NamedFields(view, c) ==
    CASE view.model \in {"Srgb", "SrgbLinear"} ->
           view.red = c[1] /\ view.green = c[2] /\ view.blue = c[3]
      [] view.model = "Hsl" ->
           view.hue = c[1] /\ view.saturation = c[2] /\ view.lightness = c[3]
      [] view.model = "Hwb" ->
           view.hue = c[1] /\ view.whiteness = c[2] /\ view.blackness = c[3]
      [] view.model = "Lab" ->
           view.lightness = c[1] /\ view.a = c[2] /\ view.b = c[3]
      [] view.model = "Lch" ->
           view.lightness = c[1] /\ view.chroma = c[2] /\ view.hue = c[3]
      [] view.model \in {"XyzD50", "XyzD65"} ->
           view.x = c[1] /\ view.y = c[2] /\ view.z = c[3]

\* C7: as_model::<M>() panics and returns no view when the tag of the Color
\* differs from M::COLOR_SPACE; when the tags match it returns a view of type
\* M whose named fields are the components and whose flags are the flags of
\* the Color.
C7_AsModelFailsFast ==
    (pc = "called" /\ call.op = "as_model") =>
        IF Source /= call.target
        THEN ret.outcome = "panic" /\ ret.value = <<>>
        ELSE /\ ret.outcome = "returned"
             /\ ret.value[1].model = call.target
             /\ NamedFields(ret.value[1], self[1].components)
             /\ ret.value[1].flags = self[1].flags

\* An Hsl view was requested of a Lab Color, and the call panicked.
C7_Witness ==
    /\ pc = "called"
    /\ call.op = "as_model"
    /\ Source = "Lab"
    /\ call.target = "Hsl"
    /\ ret.outcome = "panic"

IsNoneArg(a) == a.type = "Option" /\ a.arg = None

\* The bit and the stored value of channel i of a Color (4 is alpha).
ChannelBit(i) ==
    CASE i = 1 -> C0_IS_NONE [] i = 2 -> C1_IS_NONE [] i = 3 -> C2_IS_NONE
      [] i = 4 -> ALPHA_IS_NONE

Stored(color, i) == IF i = 4 THEN color.alpha ELSE color.components[i]

\* C8: Color::new sets the bit of channel i iff argument i is None, stores
\* 0.0 for such a channel, and stores a concrete value unchanged with its bit
\* clear; the tag is the space passed.
C8_NewFlags ==
    (pc = "ready" /\ call.op = "new") =>
        /\ self[1].color_space = call.target
        /\ \A i \in 1..4 :
             /\ ChannelBit(i) \in self[1].flags <=> IsNoneArg(args[i])
             /\ IsNoneArg(args[i]) => Stored(self[1], i) = Zero
             /\ ~IsNoneArg(args[i]) => Stored(self[1], i) = args[i].arg[1]

\* Color::new was called with None for the second component and for alpha,
\* and with concrete values, one of them not zero, for the others.
C8_Witness ==
    /\ pc = "ready"
    /\ call.op = "new"
    /\ IsNoneArg(args[2])
    /\ IsNoneArg(args[4])
    /\ ~IsNoneArg(args[1])
    /\ ~IsNoneArg(args[3])
    /\ args[1].arg[1] /= Zero
    /\ self[1].flags = {C1_IS_NONE, ALPHA_IS_NONE}

\* Every component whose bit is set in flags is stored as 0.0.
UnspecifiedAreZero(c, flags) ==
    \A i \in 1..3 : ChannelBit(i) \in flags => c[i] = Zero

ColorUnspecifiedAreZero(color) ==
    /\ UnspecifiedAreZero(color.components, color.flags)
    /\ ALPHA_IS_NONE \in color.flags => color.alpha = Zero

\* C9: in every Color built by Color::new and in every Color and typed model
\* produced at any step of to_color_space (direct results, the intermediates
\* of both chains, the final result) a channel whose unspecified bit is set
\* is stored as 0.0.
C9_UnspecifiedStoredAsZero ==
    /\ self /= <<>> => ColorUnspecifiedAreZero(self[1])
    /\ Converted =>
         /\ ret.value /= <<>> => ColorUnspecifiedAreZero(ret.value[1])
         /\ \A i \in 1..Len(ret.steps) :
              UnspecifiedAreZero(components(ret.steps[i]), ret.steps[i].flags)
         /\ ret.assembled /= <<>> => ColorUnspecifiedAreZero(ret.assembled[1])

\* The primitive transforms of convert.rs as the pairs of spaces they join:
\* the typed steps and the util functions of the direct arms.
PrimitiveEdges ==
    {<<"Srgb", "SrgbLinear">>, <<"SrgbLinear", "Srgb">>,
     <<"Srgb", "Hsl">>, <<"Hsl", "Srgb">>,
     <<"Srgb", "Hwb">>, <<"Hwb", "Srgb">>,
     <<"SrgbLinear", "XyzD65">>, <<"XyzD65", "SrgbLinear">>,
     <<"XyzD65", "XyzD50">>, <<"XyzD50", "XyzD65">>,
     <<"XyzD50", "Lab">>, <<"Lab", "XyzD50">>,
     <<"Lab", "Lch">>, <<"Lch", "Lab">>,
     <<"Oklab", "Oklch">>, <<"Oklch", "Oklab">>}

\* The spaces within n primitive transforms of the spaces in from.
RECURSIVE Within(_, _)
Within(from, n) ==
    IF n = 0 THEN from
    ELSE LET near == Within(from, n - 1)
         IN  near \cup {e[2] : e \in {d \in PrimitiveEdges : d[1] \in near}}

Connected(a, b) == b \in Within({a}, Cardinality(ColorSpace))

\* The least number of primitive transforms that lead from a to b.
Distance(a, b) ==
    CHOOSE n \in 0..Cardinality(ColorSpace) :
        /\ b \in Within({a}, n)
        /\ \A m \in 0..(n - 1) : b \notin Within({a}, m)

\* The number of transforms a call applied.
Applied == Len(ret.path) - 1

\* C10 as stated: for every pair of spaces that primitive transforms connect,
\* to_color_space applies a shortest chain of primitive transforms.
C10_ShortestChain ==
    (Converted /\ Connected(Source, call.target)) =>
        Applied = Distance(Source, call.target)

\* The direct table of the amended claim.
C10_DirectTable ==
    {<<"Srgb", "Hsl">>, <<"Hsl", "Srgb">>, <<"Srgb", "Hwb">>, <<"Hwb", "Srgb">>,
     <<"Lab", "Lch">>, <<"Lch", "Lab">>, <<"Oklab", "Oklch">>, <<"Oklch", "Oklab">>}

\* C10 amended: for every pair of spaces that primitive transforms connect,
\* to_color_space applies no transform when the spaces are equal, one
\* transform for a pair of the direct table, and otherwise a chain of
\* primitive transforms from the source through XYZ-D50 to the target that is
\* a shortest chain from the source to XYZ-D50 followed by a shortest chain
\* from XYZ-D50 to the target.
C10_ShortestThroughPivot ==
    (Converted /\ Connected(Source, call.target)) =>
        /\ ret.path[1] = Source
        /\ ret.path[Len(ret.path)] = call.target
        /\ \A i \in 1..Applied : <<ret.path[i], ret.path[i + 1]>> \in PrimitiveEdges
        /\ IF Source = call.target THEN Applied = 0
           ELSE IF <<Source, call.target>> \in C10_DirectTable THEN Applied = 1
           ELSE /\ \E i \in 1..Len(ret.path) : ret.path[i] = "XyzD50"
                /\ Applied = Distance(Source, "XyzD50")
                               + Distance("XyzD50", call.target)

\* Hsl was converted to Hwb: eight transforms through XYZ-D50, where the two
\* through Srgb are a shortest chain.
C10_Witness ==
    /\ Converted
    /\ Source = "Hsl"
    /\ call.target = "Hwb"
    /\ Applied = 8
    /\ Distance("Hsl", "Hwb") = 2


\* macro almost_equal of mod tests: equality within 4 decimal places.
almost_equal(c1, c2) == Lt(Abs(Sub(c2, c1)), Decimal(1, 4))

\* a <= v <= b
Between(a, v, b) == Le(a, v) /\ Le(v, b)

\* A hue in [0, 360).
HueInRange(h) == Le(Zero, h) /\ Lt(h, F(360, 0))

\* A color with a hue of its own: not a gray in the rgb and the hue spaces,
\* off the lightness axis in the Lab-like ones.
Chromatic(color) ==
    LET c == color.components
    IN  CASE color.color_space = "Srgb" -> ~(c[1] = c[2] /\ c[2] = c[3])
          [] color.color_space = "Hsl" ->
               Gt(c[2], Zero) /\ Gt(c[3], Zero) /\ Lt(c[3], One)
          [] color.color_space = "Hwb" -> Lt(Add(c[2], c[3]), One)
          [] color.color_space \in {"Lab", "Oklab"} -> c[2] /= Zero \/ c[3] /= Zero
          [] color.color_space \in {"Lch", "Oklch"} -> Gt(c[2], Zero)

\* A color with every component in the range of its space.
InRange(color) ==
    LET c == color.components
    IN  CASE color.color_space = "Srgb" ->
               \A i \in 1..3 : Between(Zero, c[i], One)
          [] color.color_space \in {"Hsl", "Hwb"} ->
               HueInRange(c[1]) /\ Between(Zero, c[2], One)
                 /\ Between(Zero, c[3], One)
          [] color.color_space = "Lab" ->
               Between(Zero, c[1], F(100, 0))
                 /\ Between(Neg(F(125, 0)), c[2], F(125, 0))
                 /\ Between(Neg(F(125, 0)), c[3], F(125, 0))
          [] color.color_space = "Lch" ->
               Between(Zero, c[1], F(100, 0)) /\ Between(Zero, c[2], F(150, 0))
                 /\ HueInRange(c[3])
          [] color.color_space = "Oklab" ->
               Between(Zero, c[1], One)
                 /\ Between(Neg(F(0, 40000)), c[2], F(0, 40000))
                 /\ Between(Neg(F(0, 40000)), c[3], F(0, 40000))
          [] color.color_space = "Oklch" ->
               Between(Zero, c[1], One) /\ Between(Zero, c[2], F(0, 40000))
                 /\ HueInRange(c[3])

\* The color from was converted to another space and back.
RoundTrip == pc = "back"

\* The round trip returned every component within 1e-4 of that of from.
RoundTripClose ==
    /\ ret.outcome = "returned"
    /\ \A i \in 1..3 :
         almost_equal(ret.value[1].components[i], self[1].components[i])

Saturated(color) ==
    CASE color.color_space = "Hsl" -> Le(F(0, 10000), color.components[2])
      [] color.color_space = "Hwb" ->
           Le(Add(color.components[2], color.components[3]), F(0, 90000))
      [] OTHER -> TRUE

Agree(c1, c2) == (IsNaN(c1) /\ IsNaN(c2)) \/ almost_equal(c1, c2)

\* The typed step of the chains was applied to from and made a Color.
StepTaken == pc = "called" /\ call.op = "chain_step"

\* C12: for every pair with a direct shortcut, the shortcut and the typed
\* chain step followed by into_color agree for the same input: components
\* within 1e-4 and the same flags.
C12_DirectAgreesWithStep ==
    StepTaken =>
        /\ to_color_space(self[1], call.target).outcome = "returned"
        /\ \A i \in 1..3 :
             Agree(to_color_space(self[1], call.target).value[1].components[i],
                   ret.value[1].components[i])
        /\ to_color_space(self[1], call.target).value[1].flags
             = ret.value[1].flags

\* An Srgb color with max(R, G, B) = min(R, G, B).
Achromatic(color) ==
    /\ color.color_space = "Srgb"
    /\ color.components[1] = color.components[2]
    /\ color.components[2] = color.components[3]

\* C13: for every achromatic sRGB color, Srgb -> Hsl and Srgb -> Hwb return,
\* with a NaN hue, with saturation 0 (Hsl), and with the bit of the hue not
\* set.
C13_AchromaticSentinel ==
    (Converted /\ Achromatic(self[1]) /\ call.target \in {"Hsl", "Hwb"}) =>
        /\ ret.outcome = "returned"
        /\ IsNaN(ret.value[1].components[1])
        /\ call.target = "Hsl" => ret.value[1].components[2] = Zero
        /\ C0_IS_NONE \notin ret.value[1].flags

\* Srgb(0.5, 0.5, 0.5) was converted to Hsl and to Hwb.
C13_Witness ==
    /\ Converted
    /\ self[1].color_space = "Srgb"
    /\ self[1].components = <<F(0, 50000), F(0, 50000), F(0, 50000)>>
    /\ call.target = "Hsl"
    /\ ret.outcome = "returned"
    /\ IsNaN(ret.value[1].components[1])

\* The spaces of the forward chain of a space with a chain, from the space
\* itself to XYZ-D50, as the routing rule lists them.
ForwardSpaces(S) ==
    CASE S = "Srgb" -> <<"Srgb", "SrgbLinear", "XyzD65", "XyzD50">>
      [] S = "Hsl" -> <<"Hsl", "Srgb", "SrgbLinear", "XyzD65", "XyzD50">>
      [] S = "Hwb" -> <<"Hwb", "Srgb", "SrgbLinear", "XyzD65", "XyzD50">>
      [] S = "Lab" -> <<"Lab", "XyzD50">>
      [] S = "Lch" -> <<"Lch", "Lab", "XyzD50">>
      [] S = "SrgbLinear" -> <<"SrgbLinear", "XyzD65", "XyzD50">>
      [] S = "XyzD65" -> <<"XyzD65", "XyzD50">>
      [] S = "XyzD50" -> <<"XyzD50">>

Reverse(s) == [i \in 1..Len(s) |-> s[Len(s) + 1 - i]]

\* The spaces that have a chain in both matches.
Implemented == {S \in ColorSpace : SourceTodo(S) = 0 /\ TargetTodo(S) = 0}

\* A call between two different implemented spaces outside the direct table.
Routed ==
    /\ Converted
    /\ Source /= call.target
    /\ <<Source, call.target>> \notin DirectPairs
    /\ Source \in Implemented
    /\ call.target \in Implemented

\* C14: a call outside the direct table between implemented spaces visits
\* the spaces of the source's forward chain, ending in XYZ-D50, and then the
\* spaces of the target's forward chain in reverse; the spaces visited are
\* fixed by the two tags, whatever the components and the flags.
C14_PivotRouting ==
    Routed => ret.path = ForwardSpaces(Source)
                           \o Tail(Reverse(ForwardSpaces(call.target)))

\* Hsl was converted to Hwb over XYZ-D50, in eight steps.
C14_Witness ==
    /\ Routed
    /\ Source = "Hsl"
    /\ call.target = "Hwb"
    /\ ret.path = <<"Hsl", "Srgb", "SrgbLinear", "XyzD65", "XyzD50", "XyzD65",
                    "SrgbLinear", "Srgb", "Hwb">>

\* An Hwb color was converted to Srgb, which is hwb_to_rgb on its components.
HwbConverted == Converted /\ Source = "Hwb" /\ call.target = "Srgb"

\* whiteness + blackness of an Hwb color.
Covered(color) == Add(color.components[2], color.components[3])

\* C15: when whiteness + blackness > 1, the three outputs of hwb_to_rgb are
\* whiteness / (whiteness + blackness), whatever the hue; otherwise each is
\* the output of hsl_to_rgb(hue, 1, 0.5) times (1 - whiteness - blackness)
\* plus whiteness, and no division takes place: a denominator is above 1.
C15_GrayCollapse ==
    HwbConverted =>
        /\ ret.outcome = "returned"
        /\ Gt(Covered(self[1]), One) =>
             /\ \A i \in 1..3 :
                  ret.value[1].components[i]
                    = Div(self[1].components[2], Covered(self[1]))
             /\ \A hue \in SampleValues("Hwb", 1) \cup {NaN} :
                  hwb_to_rgb(<<hue, self[1].components[2],
                               self[1].components[3]>>)
                    = ret.value[1].components
        /\ ~Gt(Covered(self[1]), One) =>
             /\ \A i \in 1..3 :
                  ret.value[1].components[i]
                    = Add(Mul(hsl_to_rgb(<<self[1].components[1], One,
                                           F(0, 50000)>>)[i],
                              Sub(Sub(One, self[1].components[2]),
                                  self[1].components[3])),
                          self[1].components[2])
             /\ \A i \in 1..3 : ~IsNaN(ret.value[1].components[i])

\* Hwb(100, 0.6, 0.6) was converted to Srgb(0.5, 0.5, 0.5).
C15_Witness ==
    /\ HwbConverted
    /\ self[1].components = <<F(100, 0), F(0, 60000), F(0, 60000)>>
    /\ ret.outcome = "returned"
    /\ ret.value[1].components = <<F(0, 50000), F(0, 50000), F(0, 50000)>>

\* The turns added to a hue to compare the results of hsl_to_rgb and
\* hwb_to_rgb.
Turns == {-1, 1, 2}

\* The color with its channel i replaced by v.
WithComponent(color, i, v) ==
    [color EXCEPT !.components = [color.components EXCEPT ![i] = v]]

\* C16: the hue produced for a chromatic Srgb color (Srgb -> Hsl, Srgb -> Hwb)
\* and the hue produced by Lab -> Lch and Oklab -> Oklch lie in [0, 360), and
\* Hsl -> Srgb and Hwb -> Srgb give the same result, to 1e-4, for the hue h
\* and for h + 360 k.
C16_HueRange ==
    (Converted /\ ret.outcome = "returned") =>
        /\ (Source = "Srgb" /\ ~Achromatic(self[1])) =>
             HueInRange(ret.value[1].components[1])
        /\ Source \in {"Lab", "Oklab"} => HueInRange(ret.value[1].components[3])
        /\ Source \in {"Hsl", "Hwb"} =>
             \A k \in Turns : \A i \in 1..3 :
                 Agree(to_color_space(
                           WithComponent(self[1], 1,
                                         Add(self[1].components[1],
                                             FromInt(360 * k))),
                           call.target).value[1].components[i],
                       ret.value[1].components[i])

\* C17: every typed model a chain of to_color_space produces has the flags
\* of the Color the call was made on, and so has the Color assembled from
\* the last of them.
C17_StepsKeepFlags ==
    Converted =>
        /\ \A i \in 1..Len(ret.steps) : ret.steps[i].flags = self[1].flags
        /\ \A i \in 1..Len(ret.assembled) :
             ret.assembled[i].flags = self[1].flags

\* An Hsl color with an unspecified hue and alpha went through the eight steps
\* to Hwb.
C17_Witness ==
    /\ Converted
    /\ Source = "Hsl"
    /\ call.target = "Hwb"
    /\ self[1].flags = {C0_IS_NONE, ALPHA_IS_NONE}
    /\ Len(ret.steps) = 9
    /\ ret.steps[9].flags = {C0_IS_NONE, ALPHA_IS_NONE}
    /\ Len(ret.assembled) = 1

\* The round trip returned the components of from, bit for bit.
RoundTripExact ==
    /\ ret.outcome = "returned"
    /\ ret.value[1].components = self[1].components

\* C18 as stated: for every Srgb color with R = G = B = v, Srgb -> Hsl -> Srgb
\* and Srgb -> Hwb -> Srgb return R = G = B = v.
C18_AchromaticRoundTrip == (RoundTrip /\ Achromatic(self[1])) => RoundTripExact

\* C18, amended: for every Srgb color with R = G = B = v and 0 <= v <= 1,
\* Srgb -> Hsl -> Srgb and Srgb -> Hwb -> Srgb return R = G = B = v: the NaN
\* hue fails every comparison of hue_to_rgb.
C18_AchromaticRoundTripInRange ==
    (RoundTrip /\ Achromatic(self[1]) /\ InRange(self[1])) => RoundTripExact

\* Srgb(0.5, 0.5, 0.5) went to Hwb(NaN, 0.5, 0.5) and back to itself.
C18_Witness ==
    /\ RoundTrip
    /\ self[1].color_space = "Srgb"
    /\ self[1].components = <<F(0, 50000), F(0, 50000), F(0, 50000)>>
    /\ ret.assembled[1].color_space = "Hwb"
    /\ IsNaN(ret.assembled[1].components[1])
    /\ RoundTripExact

=============================================================================
